---------------------------- MODULE Spec2Model ----------------------------
(***************************************************************************)
(* Salary statistics over CSV chunks (src/main.py, src/Helper.py).         *)
(*                                                                         *)
(* InputConnect.process_input creates one Pool(5) and one apply_async task *)
(* per chunk file; every task runs DataSet.get_statistics on its chunk;    *)
(* Multiprocessing.get_united_dict fetches the AsyncResults in list order  *)
(* and merges them with dict.update; the result goes to print_statistic.   *)
(*                                                                         *)
(* Text is modelled as a sequence of one-character strings, a csv row as a *)
(* sequence of such fields, a dict as a function on its key set (Python    *)
(* dict equality ignores insertion order), a 4-tuple as a sequence.        *)
(* Floating point amounts are kept exact: a salary_average s is stored as  *)
(* the integer 20000 * s (rates are stored times 10000, the division by 2  *)
(* is postponed), so int(sum / len) is (sum of stored) \div (20000 * len). *)
(***************************************************************************)
EXTENDS Integers, Sequences, FiniteSets, TLC

(* ------------------------------ bounds --------------------------------- *)
\* largest number of data rows in the folder, all chunk files together
MaxRows == 3
\* largest number of chunk files in the folder (data specification)
MaxFiles == 2
\* largest number of chunk files in the folder (dispatch specification)
MaxPoolFiles == 6

(* ------------------------- program constants --------------------------- *)
\* Pool(5)
PoolSize == 5

\* Vacancy.currency_to_rub, every rate multiplied by 10000
currency_to_rub ==
    (<<"A","Z","N">> :> 356800) @@ (<<"B","Y","R">> :> 239100) @@
    (<<"E","U","R">> :> 599000) @@ (<<"G","E","L">> :> 217400) @@
    (<<"K","G","S">> :> 7600)   @@ (<<"K","Z","T">> :> 1300)   @@
    (<<"R","U","R">> :> 10000)  @@ (<<"U","A","H">> :> 16400)  @@
    (<<"U","S","D">> :> 606600) @@ (<<"U","Z","S">> :> 55)

\* header row of every chunk file
titles ==
    << <<"n">>, <<"f">>, <<"t">>, <<"c">>, <<"a">>, <<"p">> >>

(* ------------------------------ inputs --------------------------------- *)
\* the data rows a chunk file is built from: name, salary_from, salary_to,
\* salary_currency, area_name, published_at
Rows ==
    << \* 1: matches the profession, 2020, 150 RUR
       << <<"p","r","o","g">>, <<"1","0","0">>, <<"2","0","0">>,
          <<"R","U","R">>, <<"M">>, <<"2","0","2","0","-","1","2">> >>,
       \* 2: no match, 2020, fractional salary_from, 606.6 RUR
       << <<"a","n","a","l">>, <<"1","0",".","9">>, <<"1","0">>,
          <<"U","S","D">>, <<"O">>, <<"2","0","2","0","-","0","1">> >>,
       \* 3: no match, 2021, 400 RUR
       << <<"a","n","a","l">>, <<"3","0","0">>, <<"5","0","0">>,
          <<"R","U","R">>, <<"M">>, <<"2","0","2","1","-","0","5">> >>,
       \* 4: empty field, dropped by csv_reader
       << <<"p","r","o","g">>, <<>>, <<"2","0","0">>,
          <<"R","U","R">>, <<"M">>, <<"2","0","2","1","-","0","5">> >>,
       \* 5: currency code absent from the rate table
       << <<"a","n","a","l">>, <<"1","0","0">>, <<"2","0","0">>,
          <<"X","X","X">>, <<"M">>, <<"2","0","2","0","-","0","1">> >>,
       \* 6: published_at does not start with an integer
       << <<"p","r","o","g">>, <<"1","0","0">>, <<"2","0","0">>,
          <<"R","U","R">>, <<"M">>, <<"n","/","a","-","0","1">> >> >>

\* the profession substrings the user may type
Professions == { <<"p","r">>, <<"a","n">> }

\* chunk files: sequences of at most n row numbers
RECURSIVE SeqsUpTo(_, _)
SeqsUpTo(S, n) ==
    IF n = 0 THEN { <<>> }
    ELSE LET shorter == SeqsUpTo(S, n - 1)
         IN  shorter \cup { Append(s, x) : s \in shorter, x \in S }

\* folders of exactly n chunk files holding at most r rows together, the
\* rows taken from the row numbers S
RECURSIVE Folders(_, _, _)
Folders(S, n, r) ==
    IF n = 0 THEN { <<>> }
    ELSE UNION { { <<c>> \o f : f \in Folders(S, n - 1, r - Len(c)) } :
                 c \in SeqsUpTo(S, r) }

(* --------------------------- text conversion --------------------------- *)
Digits == {"0","1","2","3","4","5","6","7","8","9"}

DigitVal(c) ==
    CASE c = "0" -> 0 [] c = "1" -> 1 [] c = "2" -> 2 [] c = "3" -> 3
      [] c = "4" -> 4 [] c = "5" -> 5 [] c = "6" -> 6 [] c = "7" -> 7
      [] c = "8" -> 8 [] c = "9" -> 9

IsDigits(s) == \A j \in 1..Len(s) : s[j] \in Digits

RECURSIVE DigitsVal(_)
DigitsVal(s) ==
    IF s = <<>> THEN 0
    ELSE 10 * DigitsVal(SubSeq(s, 1, Len(s) - 1)) + DigitVal(s[Len(s)])

\* int(text): a non-empty run of digits (signs, blanks and underscores are
\* outside the modelled alphabet)
IntOk(s) == Len(s) > 0 /\ IsDigits(s)

\* position of the first "." of s, 0 when there is none
DotPos(s) ==
    IF \E j \in 1..Len(s) : s[j] = "."
    THEN CHOOSE j \in 1..Len(s) : s[j] = "." /\ \A h \in 1..(j-1) : s[h] # "."
    ELSE 0

\* float(text) succeeds: digits with at most one ".", at least one digit
FloatOk(s) ==
    LET p == DotPos(s) IN
    IF p = 0 THEN IntOk(s)
    ELSE /\ IsDigits(SubSeq(s, 1, p - 1))
         /\ IsDigits(SubSeq(s, p + 1, Len(s)))
         /\ Len(s) > 1

\* int(float(text)): the fraction is cut off
IntFloat(s) ==
    LET p == DotPos(s) IN
    IF p = 0 THEN DigitsVal(s) ELSE DigitsVal(SubSeq(s, 1, p - 1))

\* date[:4]
DateSlice(date) == SubSeq(date, 1, IF Len(date) < 4 THEN Len(date) ELSE 4)

\* Helper.parse_year_from_date_slice
parse_year_from_date_slice(date) == DigitsVal(DateSlice(date))

\* name.find(vacancy_name) != -1
Found(name, sub) ==
    \E j \in 0..(Len(name) - Len(sub)) : SubSeq(name, j + 1, j + Len(sub)) = sub

(* ------------------------------ Vacancy -------------------------------- *)
\* dict(zip(titles, row))
RowDict(row) ==
    [name |-> row[1], salary_from |-> row[2], salary_to |-> row[3],
     salary_currency |-> row[4], area_name |-> row[5], published_at |-> row[6]]

\* the exception Vacancy.__init__ raises for a row, "none" when it succeeds
VacancyError(vacancy) ==
    IF ~FloatOk(vacancy.salary_from) \/ ~FloatOk(vacancy.salary_to)
    THEN "ValueError"
    ELSE IF vacancy.salary_currency \notin DOMAIN currency_to_rub
    THEN "KeyError"
    ELSE IF ~IntOk(DateSlice(vacancy.published_at))
    THEN "ValueError"
    ELSE "none"

\* Vacancy.__init__; salary_average is stored times 20000
Vacancy(vacancy) ==
    LET from == IntFloat(vacancy.salary_from)
        to   == IntFloat(vacancy.salary_to)
    IN  [name            |-> vacancy.name,
         salary_from     |-> from,
         salary_to       |-> to,
         salary_currency |-> vacancy.salary_currency,
         salary_average  |-> currency_to_rub[vacancy.salary_currency] * (from + to),
         area_name       |-> vacancy.area_name,
         year            |-> parse_year_from_date_slice(vacancy.published_at)]

(* ------------------------------ DataSet -------------------------------- *)
EmptyDict == <<>>

\* DataSet.increment
increment(subject, key, value) ==
    [k \in DOMAIN subject \cup {key} |->
        IF k = key
        THEN (IF key \in DOMAIN subject THEN subject[key] \o value ELSE value)
        ELSE subject[k]]

RECURSIVE SumSeq(_)
SumSeq(s) == IF s = <<>> THEN 0 ELSE s[1] + SumSeq(Tail(s))

\* DataSet.get_average_dict: int(sum(data) / len(data)) of amounts >= 0
get_average_dict(data) ==
    [key \in DOMAIN data |-> SumSeq(data[key]) \div (20000 * Len(data[key]))]

\* DataSet.csv_reader: the rows of the file that have no empty field and as
\* many fields as the header
RowValid(row) ==
    /\ \A j \in 1..Len(row) : row[j] # <<>>
    /\ Len(row) = Len(titles)

csv_reader(chunk) ==
    LET rows == [j \in 1..Len(chunk) |-> Rows[chunk[j]]]
    IN  SelectSeq(rows, RowValid)

\* the loop of get_statistics over the rows csv_reader yields
RECURSIVE Accumulate(_, _)
Accumulate(rows, profession) ==
    IF rows = <<>>
    THEN [salary |-> EmptyDict, salary_of_vacancy_name |-> EmptyDict,
          salary_city |-> EmptyDict, vacancies_count |-> 0]
    ELSE LET acc     == Accumulate(SubSeq(rows, 1, Len(rows) - 1), profession)
             vacancy == Vacancy(RowDict(rows[Len(rows)]))
         IN  [salary |->
                 increment(acc.salary, vacancy.year, <<vacancy.salary_average>>),
              salary_of_vacancy_name |->
                 IF Found(vacancy.name, profession)
                 THEN increment(acc.salary_of_vacancy_name, vacancy.year,
                                <<vacancy.salary_average>>)
                 ELSE acc.salary_of_vacancy_name,
              salary_city |->
                 increment(acc.salary_city, vacancy.area_name,
                           <<vacancy.salary_average>>),
              vacancies_count |-> acc.vacancies_count + 1]

\* the task returns value
Returned(value) == [success |-> TRUE, value |-> value, exc |-> "none"]

\* variant: the exception is caught in the task, which returns four empty
\* mappings
RaisedAndSwallowed(exc) ==
    [success |-> TRUE, value |-> <<EmptyDict, EmptyDict, EmptyDict, EmptyDict>>,
     exc |-> "none"]

\* the task raises exc: nothing in get_statistics catches it
Raised(exc) == [success |-> FALSE, value |-> <<>>, exc |-> exc]

\* the first exception Vacancy.__init__ raises on the rows of the chunk
FirstError(rows) ==
    LET bad == { j \in 1..Len(rows) : VacancyError(RowDict(rows[j])) # "none" }
    IN  IF bad = {} THEN "none"
        ELSE VacancyError(RowDict(rows[CHOOSE j \in bad : \A h \in bad : j <= h]))

\* variant: the lists of the profession without the replacement
TargetListsWithoutFallback(acc) == acc.salary_of_vacancy_name

\* the lists of the profession, replaced by [0] per year when none matched
TargetLists(acc) ==
    IF acc.salary_of_vacancy_name = EmptyDict
    THEN [key \in DOMAIN acc.salary |-> <<0>>]
    ELSE acc.salary_of_vacancy_name

\* the counts of the profession, replaced by 0 per year when none matched
TargetCounts(acc) ==
    IF acc.salary_of_vacancy_name = EmptyDict
    THEN [key \in DOMAIN acc.salary |-> 0]
    ELSE [key \in DOMAIN acc.salary_of_vacancy_name |->
             Len(acc.salary_of_vacancy_name[key])]

\* DataSet.get_statistics, as the outcome of the task: the returned 4-tuple
\* (stat_salary, vacancies_number, stat_salary_by_vac, vacs_per_name) or the
\* exception.  The area shares and the area averages of lines 147-157 are
\* locals that are dropped; only their division can be observed.
get_statistics(chunk, profession) ==
    LET rows == csv_reader(chunk) IN
    IF FirstError(rows) # "none" THEN Raised(FirstError(rows))
    ELSE LET acc == Accumulate(rows, profession) IN
         IF DOMAIN acc.salary_city # {} /\ acc.vacancies_count = 0
         THEN Raised("ZeroDivisionError")
         ELSE Returned(<< get_average_dict(acc.salary),
                          [key \in DOMAIN acc.salary |-> Len(acc.salary[key])],
                          get_average_dict(TargetLists(acc)),
                          TargetCounts(acc) >>)

\* the chunk files the folders are made of
Chunks == SeqsUpTo(DOMAIN Rows, MaxRows)

\* get_statistics tabulated once over the chunk files and the professions
StatisticsOf ==
    [chunk \in Chunks, profession \in Professions |->
        get_statistics(chunk, profession)]

(* ------------------------- Multiprocessing ----------------------------- *)
\* dict.update
DictUpdate(a, b) ==
    [key \in DOMAIN a \cup DOMAIN b |-> IF key \in DOMAIN b THEN b[key] ELSE a[key]]

\* for k in range(0, 4): answer[k].update(other[k])
UpdateAll(answer_, other) ==
    [k \in 1..4 |-> DictUpdate(answer_[k], other[k])]

(* ------------------------------- state --------------------------------- *)
VARIABLES
    files,          \* the chunk files of the folder, in directory order
    vacancy_name,   \* the profession the user typed
    pc,             \* position of process_input / get_united_dict
    pools,          \* the AsyncResult of every submitted task
    i,              \* loop variable of get_united_dict
    answer,         \* the tuple the name answer refers to
    result,         \* the value get_united_dict returned
    printed,        \* the arguments print_statistic received
    error           \* the exception process_input ended with

vars == <<files, vacancy_name, pc, pools, i, answer, result, printed, error>>

\* variant: get() that does not wait for the task
ReadyWithoutWaiting(ps, j) == TRUE

\* AsyncResult.get() waits until the result is ready
Ready(ps, j) == ps[j].state = "ready"

\* variant: get() hands out a copy, the update does not reach pools[0]
StoredWithoutUpdate(ps, merged) == ps

\* the tuple object held by pools[0] after answer[k].update(...): answer and
\* pools[0].get() are the same object, so the update shows through both
StoredAfterUpdate(ps, merged) ==
    [ps EXCEPT ![1].value = merged]

\* InputConnect(): the profession is typed in, the folder is not read yet
Start ==
    /\ vacancy_name \in Professions
    /\ files = <<>>
    /\ pc = "start"
    /\ pools = <<>>
    /\ i = 0
    /\ answer = <<>>
    /\ result = <<>>
    /\ printed = <<>>
    /\ error = "none"

Init == Start

\* the folders of the data specification
DataFolders == UNION { Folders(DOMAIN Rows, n, MaxRows) : n \in 0..MaxFiles }

\* the folders of the fair specification: chunk files made of a good row
\* and of the two rows that are fatal for Vacancy
FailFolders == UNION { Folders({1, 5, 6}, n, MaxRows) : n \in 0..MaxFiles }

\* the folders of the dispatch specification: many files of one row
PoolFolders == { [j \in 1..n |-> <<1>>] : n \in 0..MaxPoolFiles }

\* process_input: files = Helper.get_filenames_from_dir(self.files_folder)
get_filenames_from_dir(folders) ==
    /\ pc = "start"
    /\ files' \in folders
    /\ pc' = "dispatch"
    /\ UNCHANGED <<vacancy_name, pools, i, answer, result, printed, error>>

\* process_input, one pass of the for loop: Pool(5), apply_async
Dispatch ==
    /\ pc = "dispatch"
    /\ Len(pools) < Len(files)
    /\ pools' = Append(pools, [state |-> "queued", success |-> FALSE,
                               value |-> <<>>, exc |-> "TimeoutError"])
    /\ UNCHANGED <<files, vacancy_name, pc, i, answer, result, printed, error>>

\* process_input: the loop is over, Multiprocessing(pools).get_united_dict()
EndDispatch ==
    /\ pc = "dispatch"
    /\ Len(pools) = Len(files)
    /\ pc' = "get_first"
    /\ UNCHANGED <<files, vacancy_name, pools, i, answer, result, printed, error>>

\* a worker of the task's own pool takes the task
TaskStart(j) ==
    /\ pools[j].state = "queued"
    /\ pools' = [pools EXCEPT ![j].state = "running"]
    /\ UNCHANGED <<files, vacancy_name, pc, i, answer, result, printed, error>>

\* the task ends: its return value or its exception is stored in the result
TaskFinish(j) ==
    /\ pools[j].state = "running"
    /\ pools' = [pools EXCEPT
                   ![j] = [state |-> "ready"] @@ StatisticsOf[files[j], vacancy_name]]
    /\ UNCHANGED <<files, vacancy_name, pc, i, answer, result, printed, error>>

\* get_united_dict: answer = self.pools[0].get()
GetFirst ==
    /\ pc = "get_first"
    /\ IF Len(pools) = 0
       THEN /\ pc' = "error"
            /\ error' = "IndexError"
            /\ UNCHANGED <<i, answer>>
       ELSE /\ Ready(pools, 1)
            /\ IF pools[1].success
               THEN /\ answer' = pools[1].value
                    /\ i' = 2
                    /\ pc' = "merge"
                    /\ UNCHANGED error
               ELSE /\ pc' = "error"
                    /\ error' = pools[1].exc
                    /\ UNCHANGED <<i, answer>>
    /\ UNCHANGED <<files, vacancy_name, pools, result, printed>>

\* get_united_dict, one pass of the outer loop: the four updates of answer
MergeStep ==
    /\ pc = "merge"
    /\ i <= Len(pools)
    /\ Ready(pools, i)
    /\ IF pools[i].success
       THEN /\ answer' = UpdateAll(answer, pools[i].value)
            /\ pools' = StoredAfterUpdate(pools, UpdateAll(answer, pools[i].value))
            /\ i' = i + 1
            /\ UNCHANGED <<pc, error>>
       ELSE /\ pc' = "error"
            /\ error' = pools[i].exc
            /\ UNCHANGED <<i, answer, pools>>
    /\ UNCHANGED <<files, vacancy_name, result, printed>>

\* get_united_dict: return self.pools[0].get()
Return ==
    /\ pc = "merge"
    /\ i > Len(pools)
    /\ result' = pools[1].value
    /\ pc' = "print"
    /\ UNCHANGED <<files, vacancy_name, pools, i, answer, printed, error>>

\* process_input: dataset.print_statistic(result[0], ..., result[3])
PrintStatistic ==
    /\ pc = "print"
    /\ printed' = <<result[1], result[2], result[3], result[4]>>
    /\ pc' = "done"
    /\ UNCHANGED <<files, vacancy_name, pools, i, answer, result, error>>

Step ==
    \/ Dispatch
    \/ EndDispatch
    \/ \E j \in 1..Len(pools) : TaskStart(j)
    \/ \E j \in 1..Len(pools) : TaskFinish(j)
    \/ GetFirst
    \/ MergeStep
    \/ Return
    \/ PrintStatistic

Next == get_filenames_from_dir(DataFolders) \/ Step

NextPool == get_filenames_from_dir(PoolFolders) \/ Step

Spec == Init /\ [][Next]_vars

NextFail == get_filenames_from_dir(FailFolders) \/ Step

\* the worker processes and the coordinating process keep running
FairSpec == Init /\ [][NextFail]_vars /\ WF_vars(NextFail)

SpecPool == Init /\ [][NextPool]_vars

(* ------------------ definitions used by the properties ----------------- *)
\* the outcome of the task of file j
Stats(j) == StatisticsOf[files[j], vacancy_name]

\* get_united_dict on the values of successful results, as one function:
\* the first value updated with every later one, in list order
RECURSIVE United(_)
United(values) ==
    IF Len(values) = 1 THEN values[1]
    ELSE UpdateAll(United(SubSeq(values, 1, Len(values) - 1)), values[Len(values)])

\* all data rows of the folder as one chunk
RECURSIVE Flatten(_)
Flatten(fs) == IF fs = <<>> THEN <<>> ELSE fs[1] \o Flatten(Tail(fs))

\* the valid rows of the whole folder, normalised
AllValid == csv_reader(Flatten(files))

\* a row of the chunk is valid for csv_reader and fatal for Vacancy
ChunkFails(chunk) ==
    \E j \in 1..Len(chunk) :
        RowValid(Rows[chunk[j]]) /\ VacancyError(RowDict(Rows[chunk[j]])) # "none"

SomeChunkFails == \E j \in 1..Len(files) : ChunkFails(files[j])

Matches(row) == Found(RowDict(row).name, vacancy_name)

\* no valid row of any chunk has a name containing the profession
NoMatch == \A j \in 1..Len(AllValid) : ~Matches(AllValid[j])

YearOf(row) == parse_year_from_date_slice(RowDict(row).published_at)

\* the matching valid rows of year y, over all chunks
MatchingRows(y) ==
    { j \in 1..Len(AllValid) : Matches(AllValid[j]) /\ YearOf(AllValid[j]) = y }

MatchYears ==
    { YearOf(AllValid[j]) : j \in { h \in 1..Len(AllValid) : Matches(AllValid[h]) } }

Terminal == pc \in {"done", "error"}

FourEmpty == <<EmptyDict, EmptyDict, EmptyDict, EmptyDict>>

(* ------------------------------ claims --------------------------------- *)

\* C1: for a non-empty list of chunks the four printed mappings equal what
\* get_statistics returns for one chunk holding all rows of all the chunks.
\* Stated as the claim; the code violates it.
C1_MergedEqualsSingleChunk ==
    (pc = "done" /\ Len(files) >= 1)
        => printed = StatisticsOf[Flatten(files), vacancy_name].value

\* C2: get_united_dict gives the same four mappings for every permutation of
\* the list of chunk results.  Stated as the claim; the code violates it.
C2_MergeCommutative ==
    pc = "done" =>
        \A p \in Permutations(1..Len(files)) :
            United([j \in 1..Len(files) |-> Stats(p[j]).value]) = printed

\* C3: if no valid row of any chunk matches the profession, the two mappings
\* of the profession have exactly the year keys of salary_by_year and every
\* value in both is 0.
C3_NoMatchAllZero ==
    (pc \in {"print", "done"} /\ NoMatch) =>
        /\ DOMAIN result[3] = DOMAIN result[1]
        /\ DOMAIN result[4] = DOMAIN result[1]
        /\ \A y \in DOMAIN result[1] : result[3][y] = 0 /\ result[4][y] = 0

C3_Witness ==
    /\ pc = "done"
    /\ NoMatch
    /\ Len(files) >= 2
    /\ DOMAIN printed[1] = {2020, 2021}
    /\ DOMAIN Stats(1).value[1] # DOMAIN printed[1]

\* C4: if some valid row matches the profession, the two mappings of the
\* profession hold exactly the years with a matching row, and the count of a
\* year is the number of matching rows of that year over all chunks.
\* Stated as the claim; the code violates it.
C4_TargetYearsAndCounts ==
    (pc = "done" /\ ~NoMatch) =>
        /\ DOMAIN printed[3] = MatchYears
        /\ DOMAIN printed[4] = MatchYears
        /\ \A y \in MatchYears : printed[4][y] = Cardinality(MatchingRows(y))

\* C5: if the task of any chunk fails, process_input never reaches
\* print_statistic and never returns merged statistics, and it does not
\* hang: it ends with the error of a chunk.
C5_FailurePropagates ==
    /\ [](SomeChunkFails =>
            /\ pc \notin {"print", "done"}
            /\ result = <<>>
            /\ printed = <<>>)
    /\ (SomeChunkFails ~> (pc = "error" /\ error \in {"KeyError", "ValueError"}))

C5_Witness ==
    /\ pc = "error"
    /\ Len(files) >= 2
    /\ ~ChunkFails(files[1])
    /\ ChunkFails(files[2])
    /\ csv_reader(files[1]) # <<>>
    /\ i = 2

\* C6: when the folder holds no valid row at all, the run ends in an error
\* instead of printing statistics.  Stated as the claim; the code violates it.
C6_NoVacanciesIsAnError ==
    (Terminal /\ Len(AllValid) = 0) => pc = "error"

\* C7: with no chunk the merge yields an empty result without an error, and
\* with one chunk it returns that chunk's result unchanged.
\* Stated as the claim; the code violates it.
C7_ZeroAndOneChunk ==
    Terminal =>
        /\ (Len(files) = 0 => (pc = "done" /\ printed = FourEmpty))
        /\ ((Len(files) = 1 /\ Stats(1).success) =>
                (pc = "done" /\ printed = Stats(1).value))

\* the last chunk whose k-th mapping has the key y
LastWith(k, y) ==
    CHOOSE j \in 1..Len(files) :
        /\ y \in DOMAIN Stats(j).value[k]
        /\ \A h \in (j+1)..Len(files) : y \notin DOMAIN Stats(h).value[k]

\* C8: get_united_dict returns the merged value, not the first chunk's own
\* result: the key set of each returned mapping is the union of the key sets
\* of all chunks' mappings, and every key carries the value of the last
\* chunk that has it (each chunk applied once, in list order).
C8_ReturnsMerged ==
    pc \in {"print", "done"} =>
        \A k \in 1..4 :
            /\ DOMAIN result[k] = UNION { DOMAIN Stats(j).value[k] : j \in 1..Len(files) }
            /\ \A y \in DOMAIN result[k] : result[k][y] = Stats(LastWith(k, y)).value[k][y]

C8_Witness ==
    /\ pc = "done"
    /\ Len(files) >= 2
    /\ result # Stats(1).value
    /\ \E k \in 1..4 : DOMAIN result[k] # DOMAIN Stats(1).value[k]

\* the end of the run as a function of the folder alone: results are
\* fetched in list order, the first failing chunk in that order decides
FirstFailing ==
    CHOOSE j \in 1..Len(files) :
        ~Stats(j).success /\ \A h \in 1..(j-1) : Stats(h).success

ExpectedOutcome ==
    IF Len(files) = 0
    THEN [pc |-> "error", error |-> "IndexError", printed |-> <<>>]
    ELSE IF \E j \in 1..Len(files) : ~Stats(j).success
    THEN [pc |-> "error", error |-> Stats(FirstFailing).exc, printed |-> <<>>]
    ELSE [pc |-> "done", error |-> "none",
          printed |-> United([j \in 1..Len(files) |-> Stats(j).value])]

\* C9: for a fixed list of files the end of the run (the printed mappings,
\* or the error) is the same in every interleaving of the chunk tasks.
C9_OutcomeIndependentOfCompletionOrder ==
    Terminal =>
        [pc |-> pc, error |-> error, printed |-> printed] = ExpectedOutcome

\* a later task has completed while the coordinator still waits for the
\* first one
C9_Witness ==
    /\ pc = "get_first"
    /\ Len(pools) >= 2
    /\ Ready(pools, 2)
    /\ pools[2].success
    /\ ~Ready(pools, 1)
    /\ Stats(1).success
    /\ Stats(1).value # Stats(2).value

Running == { j \in 1..Len(pools) : pools[j].state = "running" }

\* C10: at most PoolSize get_statistics tasks run at the same time, whatever
\* the number of chunk files.  Stated as the claim; the code violates it.
C10_AtMostPoolSizeRunning ==
    Cardinality(Running) <= PoolSize

=============================================================================
